---- MODULE Spec2Model ----
(***************************************************************************)
(* A model of openS3's context manager (openS3/ctx_manager.py, class       *)
(* OpenS3): one handle, the bucket it talks to, and the public operations  *)
(* open / write / read / close / delete / exists / size (Spec).            *)
(*                                                                         *)
(* Further specifications run the same handle elsewhere: SpecNew from      *)
(* before its construction, SpecList on directory keys against a bucket    *)
(* that holds objects (listdir and its V4 signature), SpecType on keys of  *)
(* several extensions (content_type), SpecSign with credentials that lack  *)
(* a key (the V2 signature), SpecWrite on writes of several contents,      *)
(* SpecWith as the manager of a with block. SpecSave is of                 *)
(* openS3/storage.py: Storage.save by two clients of one bucket.           *)
(*                                                                         *)
(* Python str values are sequences of one-character strings, bytes values  *)
(* are sequences of integers (the UTF-8 code units), so that encoding and  *)
(* decoding are conversions and the str/bytes distinction of the buffer is *)
(* part of the state.                                                      *)
(***************************************************************************)
EXTENDS Integers, Sequences, FiniteSets, TLC

\* ------------------------------------------------------------------ bounds
\* Longest content a caller writes.
MaxContentLen == 1
\* Most names Storage.get_available_name tries after the one asked for.
MaxCount == 2

\* ---------------------------------------------------------------- constants
\* Python's None.
None == "<None>"

\* constants.py: ENCODING = 'utf-8', restricted to the characters of Alphabet.
Alphabet == {"x"}
Ord(c) == CASE c = "x" -> 120
Chr(b) == CASE b = 120 -> "x"

\* constants.py: CONTENT_TYPES
CONTENT_TYPES ==
  (<<"b","m","p">> :> "image/bmp") @@ (<<"c","s","s">> :> "text/css") @@
  (<<"g","i","f">> :> "image/gif") @@ (<<"h","t","m","l">> :> "text/html") @@
  (<<"j","p","e","g">> :> "image/jpeg") @@ (<<"j","p","g">> :> "image/jpeg") @@
  (<<"m","p","3">> :> "audio/mpeg") @@ (<<"p","d","f">> :> "application/pdf") @@
  (<<"p","n","g">> :> "image/png") @@ (<<"r","t","f">> :> "text/rtf") @@
  (<<"t","x","t">> :> "text/plain") @@ (<<"t","i","f","f">> :> "image/tiff") @@
  (<<"z","i","p">> :> "application/zip")

\* (a slip: text mode 'r' let through)
ValidModesAndText == {"rb", "wb", "ab", "r"}
\* constants.py: VALID_MODES (its keys)
VALID_MODES == {"rb", "wb", "ab"}

\* constants.py: DEFAULT_CONTENT_TYPE
DEFAULT_CONTENT_TYPE == "binary/octet-stream"

\* ------------------------------------------------------------ value helpers
\* A Python str / bytes value.
StrVal(s) == [kind |-> "str", data |-> s]
BytesVal(b) == [kind |-> "bytes", data |-> b]
EmptyStr == StrVal(<<>>)

\* bool(value) of a str or bytes value.
Truthy(v) == Len(v.data) > 0

\* str.encode(ENCODING) and bytes.decode().
Encode(s) == [i \in 1..Len(s) |-> Ord(s[i])]
Decode(b) == [i \in 1..Len(b) |-> Chr(b[i])]

\* A header mapping is a function from header names to values.
EmptyHeaders == [h \in {} |-> None]
\* bool(mapping): a mapping with no entries is falsy.
HeadersTruthy(h) == DOMAIN h # {}
\* dict.update: the entries of extra replace those of base.
Update(base, extra) == extra @@ base

\* str.strip('.') of a character sequence.
RECURSIVE LStripDots(_)
LStripDots(s) == IF s # <<>> /\ Head(s) = "." THEN LStripDots(Tail(s)) ELSE s
RECURSIVE RStripDots(_)
RStripDots(s) ==
  IF s # <<>> /\ s[Len(s)] = "." THEN RStripDots(SubSeq(s, 1, Len(s) - 1)) ELSE s
StripDots(s) == RStripDots(LStripDots(s))

\* str.rfind(c) + 1: the last index of c in s, 0 when absent.
LastIndex(s, c) ==
  LET I == {i \in 1..Len(s) : s[i] = c} IN
  IF I = {} THEN 0 ELSE CHOOSE i \in I : \A j \in I : j <= i

\* os.path.splitext(p)[1]: the extension, with its leading dot; leading dots
\* of the last path component do not start an extension.
SplitExt(p) ==
  LET sepIndex == LastIndex(p, "/")
      dotIndex == LastIndex(p, ".")
  IN IF dotIndex > sepIndex /\ \E i \in (sepIndex + 1)..(dotIndex - 1) : p[i] # "."
     THEN SubSeq(p, dotIndex, Len(p))
     ELSE <<>>

\* ------------------------------------------------------------------- inputs
\* Object keys the callers use: '/a.txt' and '/b.dat'.
KeyTxt == <<"/","a",".","t","x","t">>
KeyDat == <<"/","b",".","d","a","t">>
Keys == {KeyTxt, KeyDat}

\* Contents the callers write: every str over Alphabet up to MaxContentLen.
RECURSIVE StrsUpTo(_)
StrsUpTo(n) ==
  IF n = 0 THEN {<<>>}
  ELSE StrsUpTo(n - 1) \cup {Append(s, c) : s \in StrsUpTo(n - 1), c \in Alphabet}
Contents == StrsUpTo(MaxContentLen)

\* Modes the callers pass to open(); 'r' is not a valid mode.
ModeArgs == {"rb", "wb", "ab", "r"}

\* OpenS3.open, docstring: the canned ACL values.
CannedAcls ==
  {"private", "public-read", "public-read-write", "authenticated-read",
   "bucket-owner-read", "bucket-owner-full-control"}

\* The (content_type, acl, extra_request_headers) arguments callers pass;
\* 'public' is not a canned ACL.
OverrideHeaders == [h \in {"Content-Type"} |-> "text/css"]
OpenArgs ==
  { [content_type |-> None, acl |-> "private", extra |-> EmptyHeaders],
    [content_type |-> "text/css", acl |-> "public-read", extra |-> EmptyHeaders],
    [content_type |-> None, acl |-> "public", extra |-> OverrideHeaders] }

\* -------------------------------------------------------------------- state
VARIABLES
  bucket, access_key, secret_key,   \* credentials of the handle
  mode, acl, object_key, buffer,    \* OpenS3 fields
  content_type_,                    \* OpenS3._content_type
  response_headers,                 \* OpenS3.response_headers
  extra_request_headers,            \* OpenS3.extra_request_headers
  store,                            \* the bucket: key -> None or stored object
  last,                             \* the last call: what it sent, got, did
  mutation,                         \* per key: the latest accepted PUT or DELETE
  savers                            \* per client of S3Storage: its save() in progress
vars == <<bucket, access_key, secret_key, mode, acl, object_key, buffer,
          content_type_, response_headers, extra_request_headers, store,
          last, mutation, savers>>
creds == <<bucket, access_key, secret_key>>
fields == <<mode, acl, object_key, buffer, content_type_, response_headers,
            extra_request_headers>>

\* ------------------------------------------------------------ the transport
\* What the bucket holds under a key.
Absent == [present |-> FALSE, body |-> <<>>, ctype |-> None]
Stored(body, ctype) == [present |-> TRUE, body |-> body, ctype |-> ctype]

\* The headers of a response: the service always names itself, and gives the
\* Content-Type of what it returns.
ServerHeaders(ctype) ==
  IF ctype = None THEN [h \in {"Server"} |-> "AmazonS3"]
  ELSE ("Server" :> "AmazonS3") @@ ("Content-Type" :> ctype)

\* Statuses of a request the service refuses or fails.
FaultStatuses == {403, 500}

\* A response as http.client hands it over. has_length says response.length
\* is not None; faithful marks the answer the service gives when the request
\* is authorised and nothing fails.
Response(status, has_length, body, ctype, faithful) ==
  [status |-> status, has_length |-> has_length, body |-> body,
   headers |-> ServerHeaders(ctype), faithful |-> faithful]

\* A failure answer; only the answer to a GET may come without a length
\* (http.client gives HEAD responses length 0).
Faults(lengths) ==
  {Response(s, l, <<>>, "application/xml", FALSE) : s \in FaultStatuses, l \in lengths}

IsPresent(path) == path \in Keys /\ store[path].present

\* Responses to GET path.
GetResponses(path) ==
  (IF IsPresent(path)
   THEN {Response(200, TRUE, store[path].body, store[path].ctype, TRUE)}
   ELSE IF path \in Keys
   THEN {Response(404, l, <<>>, "application/xml", TRUE) : l \in BOOLEAN}
   ELSE {})
  \cup Faults(BOOLEAN) \cup {Response(204, TRUE, <<>>, None, FALSE)}

\* Responses to HEAD path.
HeadResponses(path) ==
  (IF IsPresent(path)
   THEN {Response(200, TRUE, <<>>, store[path].ctype, TRUE)}
   ELSE IF path \in Keys
   THEN {Response(404, TRUE, <<>>, "application/xml", TRUE)}
   ELSE {})
  \cup Faults({TRUE})

\* Responses to PUT path: 200 or 204 when the service stores the object.
PutResponses(path) ==
  (IF path \in Keys
   THEN {Response(s, TRUE, <<>>, None, TRUE) : s \in {200, 204}}
   ELSE {})
  \cup Faults({TRUE})

\* Responses to DELETE path: 200 or 204 when the service removes the object
\* (or finds none to remove); some backends answer 404 for an absent key.
DeleteResponses(path) ==
  (IF path \in Keys
   THEN {Response(s, TRUE, <<>>, None, TRUE) : s \in {200, 204}}
        \cup (IF IsPresent(path) THEN {}
              ELSE {Response(404, TRUE, <<>>, "application/xml", FALSE)})
   ELSE {})
  \cup Faults({TRUE})

\* The bucket after the service has answered a request with this status.
StoreAfter(method, path, body, ctype, status) ==
  IF path \in Keys /\ status \in {200, 204}
  THEN CASE method = "PUT" -> [store EXCEPT ![path] = Stored(body, ctype)]
         [] method = "DELETE" -> [store EXCEPT ![path] = Absent]
         [] OTHER -> store
  ELSE store

\* The latest mutation of each key the service accepted from the handle, by
\* the key the handle was bound to when it asked.
MutationAfter(method, key, status) ==
  IF key \in Keys /\ status \in {200, 204}
  THEN CASE method = "PUT" -> [mutation EXCEPT ![key] = "put"]
         [] method = "DELETE" -> [mutation EXCEPT ![key] = "delete"]
         [] OTHER -> mutation
  ELSE mutation

\* ------------------------------------------------------- derived properties
\* (a slip: the cached response headers consulted first)
ContentTypeHeadersFirst ==
  IF "Content-Type" \in DOMAIN response_headers
  THEN response_headers["Content-Type"]
  ELSE IF content_type_ # None /\ content_type_ # "" THEN content_type_
  ELSE IF object_key # <<>> /\ StripDots(SplitExt(object_key)) \in DOMAIN CONTENT_TYPES
  THEN CONTENT_TYPES[StripDots(SplitExt(object_key))]
  ELSE DEFAULT_CONTENT_TYPE
\* OpenS3.content_type (the property); None and '' are both falsy.
ContentType ==
  IF content_type_ # None /\ content_type_ # "" THEN content_type_
  ELSE IF "Content-Type" \in DOMAIN response_headers
  THEN response_headers["Content-Type"]
  ELSE IF object_key # <<>> /\ StripDots(SplitExt(object_key)) \in DOMAIN CONTENT_TYPES
  THEN CONTENT_TYPES[StripDots(SplitExt(object_key))]
  ELSE DEFAULT_CONTENT_TYPE

\* OpenS3.url: scheme, netloc and the key.
Url == <<"http://", bucket, ".s3.amazonaws.com", object_key>>

\* hashlib.md5(...).digest() and b64_string, as injective constructors.
Md5(b) == <<"md5", b>>
B64String(d) == <<"b64", d>>

\* OpenS3.md5hash: str.encode exists on str only; on a bytes buffer the
\* attribute lookup fails.
Md5HashRaises == buffer.kind # "str"
Md5Hash == B64String(Md5(Encode(buffer.data)))

\* OpenS3._request_signature
RequestSignature(string_to_sign) ==
  B64String(<<"hmac-sha1", secret_key, string_to_sign>>)

\* datetime.now() formatted by format_date_time.
Now == "Thu, 05 Nov 2026 16:44:21 GMT"

\* (a slip: the string to sign made of the values before the caller's extra
\* headers are laid over them)
BuildRequestHeadersSignsOwn(method, key) ==
  LET plain ==
        ("Date" :> Now)
        @@ (IF Truthy(buffer) THEN ("Content-Length" :> Len(buffer.data))
            ELSE EmptyHeaders)
        @@ ("Content-MD5" :> Md5Hash)
        @@ ("Content-Type" :> ContentType)
        @@ ("x-amz-acl" :> acl)
      headers == Update(plain, extra_request_headers)
      string_to_sign ==
        << method, plain["Content-MD5"], plain["Content-Type"],
           plain["Date"], <<"x-amz-acl:", plain["x-amz-acl"]>>,
           <<"/", bucket, key>> >>
  IN IF access_key # "" /\ secret_key # ""
     THEN ("Authorization" :>
             <<"AWS ", access_key, ":", RequestSignature(string_to_sign)>>)
          @@ headers
     ELSE headers
\* OpenS3._build_request_headers, for a buffer md5hash accepts.
BuildRequestHeaders(method, key) ==
  LET plain ==
        ("Date" :> Now)
        @@ (IF Truthy(buffer) THEN ("Content-Length" :> Len(buffer.data))
            ELSE EmptyHeaders)
        @@ ("Content-MD5" :> Md5Hash)
        @@ ("Content-Type" :> ContentType)
        @@ ("x-amz-acl" :> acl)
      headers == Update(plain, extra_request_headers)
      string_to_sign ==
        << method, headers["Content-MD5"], headers["Content-Type"],
           headers["Date"], <<"x-amz-acl:", headers["x-amz-acl"]>>,
           <<"/", bucket, key>> >>
  IN IF access_key # "" /\ secret_key # ""
     THEN ("Authorization" :>
             <<"AWS ", access_key, ":", RequestSignature(string_to_sign)>>)
          @@ headers
     ELSE headers

\* One HTTP request as handed to HTTPConnection.request.
Request(method, path, body) ==
  [method |-> method, path |-> path, body |-> body,
   headers |-> BuildRequestHeaders(method, object_key)]

\* ---------------------------------------------------------------- the calls
\* The record of a call: the key the handle was bound to when it began and
\* whether the bucket held that key, what it raised or returned, the request
\* lines it sent (method, path, body) and the response it got, the
\* connections it opened and those it left open.
\* with closing(HTTPConnection(self.netloc)) as conn: a call that gets as far
\* as its request opens one connection, and the with block closes it when it
\* is left, by return or by raise.
ConnectionsOpened == 1
ConnectionsLeftOpen == 0
RequestLine(req) == [method |-> req.method, path |-> req.path, body |-> req.body]
Call(op, raised, result) ==
  [op |-> op, key |-> object_key, raised |-> raised, result |-> result,
   sent |-> <<>>, status |-> 0, has_length |-> FALSE, faithful |-> FALSE,
   first |-> FALSE, was_present |-> IsPresent(object_key),
   opened |-> 0, left_open |-> 0]
Exchange(op, raised, result, req, resp) ==
  [op |-> op, key |-> object_key, raised |-> raised, result |-> result,
   sent |-> <<RequestLine(req)>>, status |-> resp.status, has_length |-> resp.has_length,
   faithful |-> resp.faithful, first |-> FALSE,
   was_present |-> IsPresent(object_key),
   opened |-> ConnectionsOpened, left_open |-> ConnectionsLeftOpen]
\* The record of open() and write(), which bind or fill the handle and send
\* nothing; key is the key bound when the call returns.
Local(op, key, raised) ==
  [op |-> op, key |-> key, raised |-> raised, result |-> None,
   sent |-> <<>>, status |-> 0, has_length |-> FALSE, faithful |-> FALSE,
   first |-> FALSE, was_present |-> FALSE, opened |-> 0, left_open |-> 0]
\* first: the call directly follows a successful open() on the handle.
AfterOpen(call) ==
  [call EXCEPT !.first = (last.op = "open" /\ last.raised = None)]

\* The clients of S3Storage, none of them saving.
Clients == {1, 2}
NoSavers == [c \in Clients |-> [pc |-> "idle", n |-> 0]]

Init ==
  /\ bucket = "bkt" /\ access_key = "AK" /\ secret_key = "SK"
  /\ mode = "rb" /\ acl = "private"
  /\ object_key = <<>> /\ buffer = EmptyStr
  /\ content_type_ = None
  /\ response_headers = EmptyHeaders
  /\ extra_request_headers = EmptyHeaders
  /\ store = [k \in Keys |-> Absent]
  /\ last = [op |-> "init", key |-> <<>>, raised |-> None, result |-> None,
             sent |-> <<>>, status |-> 0, has_length |-> FALSE,
             faithful |-> FALSE, first |-> FALSE, was_present |-> FALSE,
             opened |-> 0, left_open |-> 0]
  /\ mutation = [k \in Keys |-> "none"]
  /\ savers = NoSavers

\* (a slip: nothing validated)
ValidationFuncAny(value) == TRUE
\* OpenS3.__init__: lambda value: value is not None
ValidationFunc(value) == value # None
\* utils.validate_values raises ValueError: some value of dic fails validation.
ValidateValuesRaises(dic) == \E value \in dic : ~ValidationFunc(value)
\* OpenS3.__init__ raises: validate_values over its arguments (self, which
\* locals() also holds, is never None).
InitRaises(b, a, s) == ValidateValuesRaises({b, a, s})

\* OpenS3.__init__ past validation: the fields it sets.
InitFields ==
  /\ mode' = "rb" /\ acl' = "private"
  /\ object_key' = <<>> /\ buffer' = EmptyStr
  /\ content_type_' = None
  /\ response_headers' = EmptyHeaders
  /\ extra_request_headers' = EmptyHeaders

\* OpenS3.__init__ run again on the handle, with its own credentials: they
\* are assigned before they are validated.
Reinit ==
  /\ bucket' = bucket /\ access_key' = access_key /\ secret_key' = secret_key
  /\ IF InitRaises(bucket, access_key, secret_key)
     THEN UNCHANGED fields
     ELSE InitFields
  /\ UNCHANGED savers
\* What that run raises.
ReinitError ==
  IF InitRaises(bucket, access_key, secret_key) THEN "ValueError" ELSE None

\* OpenS3.open (and __call__); the record of the call keeps the mode asked
\* for as its result.
Open(k, m, a) ==
  /\ IF m \notin VALID_MODES
     THEN /\ last' = [Local("open", object_key, "ValueError") EXCEPT !.result = m]
          /\ UNCHANGED fields
     ELSE /\ object_key' = k
          /\ mode' = m
          /\ content_type_' = a.content_type
          /\ acl' = a.acl
          /\ extra_request_headers' =
               IF HeadersTruthy(a.extra) THEN a.extra ELSE EmptyHeaders
          /\ last' = [Local("open", k, None) EXCEPT !.result = m]
          /\ UNCHANGED <<buffer, response_headers>>
  /\ UNCHANGED <<savers, creds, store, mutation>>

\* (a slip: append mode forgotten)
WriteRefusedUnlessWb == mode # "wb"
\* OpenS3.write: the modes it refuses.
WriteRefused == mode \notin {"wb", "ab"}

\* (a slip: the content added to what the buffer holds)
WriteBufferAppended(content) ==
  IF buffer.kind = "str" THEN StrVal(buffer.data \o content) ELSE StrVal(content)
\* OpenS3.write: self.buffer = content
WriteBuffer(content) == StrVal(content)
\* The record of a write(): as its result it keeps the content handed over
\* and the buffer the call found.
Written(call, content) ==
  [call EXCEPT !.result = [content |-> StrVal(content), found |-> buffer]]

\* OpenS3.write
Write(content) ==
  /\ IF WriteRefused
     THEN /\ last' = AfterOpen(Written(Local("write", object_key, "RuntimeError"),
                                       content))
          /\ UNCHANGED buffer
     ELSE /\ buffer' = WriteBuffer(content)
          /\ last' = AfterOpen(Written(Local("write", object_key, None), content))
  /\ UNCHANGED <<savers, creds, mode, acl, object_key, content_type_, response_headers,
                 extra_request_headers, store, mutation>>

\* OpenS3.close: the condition under which it PUTs.
ShouldPut == mode \in {"wb", "ab"} /\ Truthy(buffer)
\* OpenS3._put: the statuses it takes for success.
PutSucceeded(status) == status \in {200, 204}

\* (a slip: __exit__ taken to swallow what the body raised)
ExitRaisesSuppressed(exc_type, close_raised) == close_raised
\* What the caller of close(), or of a with statement whose body raised
\* exc_type (None: it raised nothing, or close() was called directly), gets
\* raised: what close() raises, else exc_type, since __exit__ returns None
\* and so suppresses nothing.
ExitRaises(exc_type, close_raised) ==
  IF close_raised # None THEN close_raised ELSE exc_type

\* OpenS3.close, with OpenS3._put, called directly (op 'close') or by
\* __exit__ (op 'exit') with the exception of the with-body; the record keeps
\* exc_type as its result. The transport sends a str body encoded; for the
\* characters of Alphabet that is Encode. A PUT that fails leaves close()
\* before its reset.
CloseCall(op, exc_type) ==
  IF ShouldPut
  THEN IF Md5HashRaises
       THEN /\ last' = Call(op, ExitRaises(exc_type, "AttributeError"), exc_type)
            /\ UNCHANGED <<savers, creds, fields, store, mutation>>
       ELSE \E resp \in PutResponses(object_key) :
              LET req == Request("PUT", object_key, Encode(buffer.data)) IN
              /\ store' = StoreAfter("PUT", req.path, req.body,
                                     req.headers["Content-Type"], resp.status)
              /\ mutation' = MutationAfter("PUT", object_key, resp.status)
              /\ IF PutSucceeded(resp.status)
                 THEN /\ last' = Exchange(op, ExitRaises(exc_type, ReinitError),
                                          exc_type, req, resp)
                      /\ Reinit
                 ELSE /\ last' = Exchange(op, ExitRaises(exc_type, "S3IOError"),
                                          exc_type, req, resp)
                      /\ UNCHANGED <<savers, creds, fields>>
  ELSE /\ last' = Call(op, ExitRaises(exc_type, ReinitError), exc_type)
       /\ Reinit
       /\ UNCHANGED <<store, mutation>>

\* OpenS3.close
Close == CloseCall("close", None)

\* OpenS3._get: the statuses it takes for success.
GetSucceeded(status) == status \in {200, 204}
\* OpenS3._get: the error it raises for a response that is no success.
GetError(resp) ==
  IF ~resp.has_length THEN "S3FileDoesNotExistError" ELSE "S3IOError"

\* OpenS3.read: return self.buffer
ReadResult(buf) == buf
\* OpenS3.size: return len(self.buffer)
SizeResult(buf) == Len(buf.data)
\* What op ("read" or "size") returns once _get has filled the buffer.
Result(op, buf) == IF op = "size" THEN SizeResult(buf) ELSE ReadResult(buf)

\* OpenS3._get, called by op ("read" or "size").
Get(op) ==
  IF Md5HashRaises
  THEN /\ last' = AfterOpen(Call(op, "AttributeError", None))
       /\ UNCHANGED <<savers, creds, fields, store, mutation>>
  ELSE \E resp \in GetResponses(object_key) :
         LET req == Request("GET", object_key, <<>>) IN
         /\ IF GetSucceeded(resp.status)
            THEN /\ buffer' = BytesVal(resp.body)
                 /\ response_headers' = resp.headers
                 /\ last' = AfterOpen(Exchange(op, None, Result(op, buffer'), req, resp))
            ELSE /\ last' = AfterOpen(Exchange(op, GetError(resp), None, req, resp))
                 /\ UNCHANGED <<buffer, response_headers>>
         /\ UNCHANGED <<savers, creds, mode, acl, object_key, content_type_,
                        extra_request_headers, store, mutation>>

\* OpenS3.read
Read == Get("read")

\* OpenS3.size (the property): fetches the object when nothing was fetched.
SizeFetches == ~Truthy(buffer) /\ ~HeadersTruthy(response_headers)
Size ==
  IF SizeFetches
  THEN Get("size")
  ELSE /\ last' = Call("size", None, SizeResult(buffer))
       /\ UNCHANGED <<savers, creds, fields, store, mutation>>

\* (a slip: 204 alone taken for success)
DeleteSucceededOnly204(status) == status \in {204}
\* OpenS3.delete: the statuses it takes for success.
DeleteSucceeded(status) == status \in {200, 204}

\* OpenS3.delete
Delete ==
  IF Md5HashRaises
  THEN /\ last' = Call("delete", "AttributeError", None)
       /\ UNCHANGED <<savers, creds, fields, store, mutation>>
  ELSE \E resp \in DeleteResponses(object_key) :
         LET req == Request("DELETE", object_key, <<>>) IN
         /\ store' = StoreAfter("DELETE", req.path, <<>>, None, resp.status)
         /\ mutation' = MutationAfter("DELETE", object_key, resp.status)
         /\ IF DeleteSucceeded(resp.status)
            THEN /\ last' = Exchange("delete", ReinitError, None, req, resp)
                 /\ Reinit
            ELSE /\ last' = Exchange("delete", "S3IOError", None, req, resp)
                 /\ UNCHANGED <<savers, creds, fields>>

\* OpenS3.exists: the statuses it answers for, and its answer.
ExistsAnswers(status) == status \in {200, 404}
\* (a slip: the membership test itself returned as the answer)
ExistsResultAnyAnswer(status) == IF status \in {200, 404} THEN "True" ELSE "False"
ExistsResult(status) == IF status = 200 THEN "True" ELSE "False"

\* OpenS3.exists, with OpenS3._head
Exists ==
  IF Md5HashRaises
  THEN /\ last' = Call("exists", "AttributeError", None)
       /\ UNCHANGED <<savers, creds, fields, store, mutation>>
  ELSE \E resp \in HeadResponses(object_key) :
         LET req == Request("HEAD", Url, <<>>) IN
         /\ response_headers' = resp.headers
         /\ last' = IF ExistsAnswers(resp.status)
                    THEN Exchange("exists", None, ExistsResult(resp.status), req, resp)
                    ELSE Exchange("exists", "S3IOError", None, req, resp)
         /\ UNCHANGED <<savers, creds, mode, acl, object_key, buffer, content_type_,
                        extra_request_headers, store, mutation>>

Next ==
  \/ \E k \in Keys, m \in ModeArgs, a \in OpenArgs : Open(k, m, a)
  \/ \E content \in Contents : Write(content)
  \/ Read
  \/ Close
  \/ Delete
  \/ Exists
  \/ Size

Spec == Init /\ [][Next]_vars

\* ------------------------------------------------------------- construction
\* The credentials callers construct a handle with; None is a missing one.
NewArgs == {None, "bkt"} \X {None, "AK"} \X {None, "SK"}

\* No handle has been constructed yet: the fields are placeholders that no
\* operation reads.
InitNew ==
  /\ bucket = None /\ access_key = None /\ secret_key = None
  /\ mode = "rb" /\ acl = "private"
  /\ object_key = <<>> /\ buffer = EmptyStr
  /\ content_type_ = None
  /\ response_headers = EmptyHeaders
  /\ extra_request_headers = EmptyHeaders
  /\ store = [k \in Keys |-> Absent]
  /\ last = [Local("start", <<>>, None) EXCEPT !.result = <<>>]
  /\ mutation = [k \in Keys |-> "none"]
  /\ savers = NoSavers

\* A handle exists: some construction has returned.
Constructed ==
  ~(last.op = "start" \/ (last.op = "new" /\ last.raised # None))

\* OpenS3(b, a, s), until a handle exists; the record of the call keeps the
\* arguments as its result. A construction that raises yields no handle.
New(b, a, s) ==
  /\ ~Constructed
  /\ IF InitRaises(b, a, s)
     THEN /\ last' = [Local("new", <<>>, "ValueError") EXCEPT !.result = <<b, a, s>>]
          /\ UNCHANGED <<creds, fields>>
     ELSE /\ bucket' = b /\ access_key' = a /\ secret_key' = s
          /\ InitFields
          /\ last' = [Local("new", <<>>, None) EXCEPT !.result = <<b, a, s>>]
  /\ UNCHANGED <<store, mutation, savers>>

\* The life of a handle from its construction on.
NextNew ==
  \/ \E args \in NewArgs : New(args[1], args[2], args[3])
  \/ (Constructed /\ Next)

SpecNew == InitNew /\ [][NextNew]_vars

\* ------------------------------------------------------------------ listing
\* str.lstrip('/'), str.rstrip('/') and str.strip('/') of a character sequence.
RECURSIVE LStripSlash(_)
LStripSlash(s) == IF s # <<>> /\ Head(s) = "/" THEN LStripSlash(Tail(s)) ELSE s
RECURSIVE RStripSlash(_)
RStripSlash(s) ==
  IF s # <<>> /\ s[Len(s)] = "/" THEN RStripSlash(SubSeq(s, 1, Len(s) - 1)) ELSE s
StripSlash(s) == RStripSlash(LStripSlash(s))

\* c in s
Contains(s, c) == \E i \in 1..Len(s) : s[i] = c
\* s.startswith(p)
StartsWith(s, p) == Len(p) <= Len(s) /\ SubSeq(s, 1, Len(p)) = p
\* s.split('/')[0]
FirstSegment(s) ==
  LET I == {i \in 1..Len(s) : s[i] = "/"} IN
  IF I = {} THEN s
  ELSE SubSeq(s, 1, (CHOOSE i \in I : \A j \in I : i <= j) - 1)

\* Keys callers list: '/', '/d/', the two-level '/d/e/', and '/d', which
\* is not shaped like a directory.
DirRoot == <<"/">>
DirD == <<"/","d","/">>
DirDeep == <<"/","d","/","e","/">>
FileD == <<"/","d">>
DirKeys == {DirRoot, DirD, DirDeep, FileD}

\* Paths of the objects a listed bucket may hold: '/c' at the root; '/d/x',
\* '/d/e/y', '/d/e/z' and '/d/f/y' under d; '/dx/y' and '/d.t', which share
\* their first character with d and lie outside it.
PathC == <<"/","c">>
PathDX == <<"/","d","/","x">>
PathDEY == <<"/","d","/","e","/","y">>
PathDEZ == <<"/","d","/","e","/","z">>
PathDFY == <<"/","d","/","f","/","y">>
PathDxY == <<"/","d","x","/","y">>
PathDT == <<"/","d",".","t">>
ListPaths == {PathC, PathDX, PathDEY, PathDEZ, PathDFY, PathDxY, PathDT}

\* The buckets listed: every set of those objects.
ListStores ==
  { [p \in ListPaths |->
       IF p \in S THEN Stored(<<120>>, DEFAULT_CONTENT_TYPE) ELSE Absent]
    : S \in SUBSET ListPaths }

\* The key the service knows an object by: its path less the leading slash.
S3Key(path) == Tail(path)

\* OpenS3.listdir: the prefix it asks for and the query it makes of it.
Prefix == StripSlash(object_key)
QueryStringDict(prefix) ==
  IF prefix # <<>> THEN [q \in {"prefix"} |-> prefix] ELSE EmptyHeaders

\* uri_encode of a query value: unreserved characters stand for themselves.
UriEncode(str) ==
  IF str = <<>> THEN <<>>
  ELSE LET enc(c) == IF c = "/" THEN <<"%","2","F">> ELSE <<c>>
           RECURSIVE Enc(_)
           Enc(t) == IF t = <<>> THEN <<>> ELSE enc(Head(t)) \o Enc(Tail(t))
       IN Enc(str)
\* get_canonical_query_string of the query: 'prefix=<value>', or '' for no
\* parameter.
CanonicalQueryString(dict) ==
  IF DOMAIN dict = {} THEN <<>>
  ELSE <<"p","r","e","f","i","x","=">> \o UriEncode(dict["prefix"])

\* OpenS3.listdir: the request it sends, GET '/' with the query string.
ListRequest ==
  LET canonical_query_string == CanonicalQueryString(QueryStringDict(Prefix))
      query_string == IF canonical_query_string # <<>>
                      THEN <<"?">> \o canonical_query_string ELSE <<>>
  IN [method |-> "GET", path |-> <<"/">> \o query_string, body |-> <<>>]

\* The UTC clock while listdir() runs: its readings, in order, the second
\* on the day after the first. A reading is named by its index.
UtcClock ==
  << [ymd |-> "20261105", hms |-> "235959"],
     [ymd |-> "20261106", hms |-> "000000"] >>
ClockReadings == 1..Len(UtcClock)
\* strftime('%Y%m%dT%H%M%SZ') and strftime('%Y%m%d') of a reading.
Iso8601(t) == <<UtcClock[t].ymd, "T", UtcClock[t].hms, "Z">>
Ymd(t) == UtcClock[t].ymd

\* The region and service of the scope (constants.AWS_S3_REGION and
\* AWS_S3_SERVICE).
AWS_S3_REGION == "<region>"
AWS_S3_SERVICE == "<service>"
\* hashlib.sha256(...).hexdigest() and hmac_sha256, as the terms they are of.
Sha256Hex(msg) == <<"sha256", msg>>
HmacSha256(key, msg) == <<"hmac-sha256", key, msg>>
\* get_signing_key: four chained HMACs over date, region, service and
\* 'aws4_request', from 'AWS4' + secret.
GetSigningKey(secret, date, region, service) ==
  HmacSha256(HmacSha256(HmacSha256(HmacSha256(<<"AWS4", secret>>, date),
                                   region), service), "aws4_request")
\* get_canonical_headers_string of listdir's three headers: a line
\* 'lowercased-name:value' each, sorted by name.
CanonicalHeadersString(header_dict) ==
  << <<"host", ":", header_dict["Host"]>>,
     <<"x-amz-content-sha256", ":", header_dict["x-amz-content-sha256"]>>,
     <<"x-amz-date", ":", header_dict["x-amz-date"]>> >>
\* OpenS3.listdir: the names of its headers, sorted, joined by ';', lowered.
SignedHeaders == "host;x-amz-content-sha256;x-amz-date"
\* OpenS3.netloc
Netloc == <<bucket, ".s3.amazonaws.com">>

\* (a slip: the clock read again for the date of the signing key)
SigningKeyDateReread(datetime_now, utcnow) == Ymd(utcnow)
\* OpenS3.listdir: the timestamp of its request and the dates of its scope
\* and of its signing key, each formatted from datetime_now, the reading
\* taken when signing began; utcnow is what the clock reads by then.
Iso8601Timestamp(datetime_now, utcnow) == Iso8601(datetime_now)
RequestScopeDate(datetime_now, utcnow) == Ymd(datetime_now)
SigningKeyDate(datetime_now, utcnow) == Ymd(datetime_now)

\* OpenS3.listdir: the headers it signs and sends, with datetime_now taken
\* at the start and the clock at utcnow by the time the date strings are
\* formatted.
ListHeaders(datetime_now, utcnow) ==
  LET iso_8601_timestamp == Iso8601Timestamp(datetime_now, utcnow)
      header_dict ==
        ("Host" :> Netloc)
        @@ ("x-amz-date" :> iso_8601_timestamp)
        @@ ("x-amz-content-sha256" :> Sha256Hex(<<>>))
      canonical_request ==
        << "GET", UriEncode(<<"/">>),
           CanonicalQueryString(QueryStringDict(Prefix)),
           CanonicalHeadersString(header_dict), SignedHeaders, Sha256Hex(<<>>) >>
      request_scope ==
        << RequestScopeDate(datetime_now, utcnow), AWS_S3_REGION,
           AWS_S3_SERVICE, "aws4_request" >>
      string_to_sign ==
        << "AWS4-HMAC-SHA256", iso_8601_timestamp, request_scope,
           Sha256Hex(canonical_request) >>
      signing_key ==
        GetSigningKey(secret_key, SigningKeyDate(datetime_now, utcnow),
                      AWS_S3_REGION, AWS_S3_SERVICE)
      signature == HmacSha256(signing_key, string_to_sign)
  IN ("Authorization" :>
        [scheme |-> "AWS4-HMAC-SHA256",
         credential |-> <<access_key, request_scope>>,
         signed_headers |-> SignedHeaders,
         signature |-> signature])
     @@ header_dict
\* The request of listdir() as it goes out: its line, its headers, and the
\* reading of the clock when it is sent.
SignedListRequest(datetime_now, utcnow) ==
  [method |-> ListRequest.method, path |-> ListRequest.path,
   body |-> ListRequest.body,
   headers |-> ListHeaders(datetime_now, utcnow), sent_at |-> utcnow]
\* The record of a listdir() that sent its request.
ListExchange(raised, result, req, resp) ==
  [Exchange("listdir", raised, result, req, resp) EXCEPT !.sent = <<req>>]

\* The keys the service lists for a query: those of the objects it holds
\* that begin with the prefix, all of them without one.
ListedKeys(dict) ==
  {S3Key(p) : p \in {q \in DOMAIN store :
                       /\ store[q].present
                       /\ ("prefix" \in DOMAIN dict
                             => StartsWith(S3Key(q), dict["prefix"]))}}

\* Responses to the listing GET: the ListBucketResult document, a refusal or
\* failure, or a 204 without a body. parses says the body is XML.
ListResponses(dict) ==
  {[status |-> 200, has_length |-> TRUE, parses |-> TRUE,
    keys |-> ListedKeys(dict), faithful |-> TRUE]}
  \cup {[status |-> st, has_length |-> TRUE, parses |-> TRUE,
          keys |-> {}, faithful |-> FALSE] : st \in FaultStatuses}
  \cup {[status |-> 204, has_length |-> TRUE, parses |-> FALSE,
          keys |-> {}, faithful |-> FALSE]}

\* get_dirs_and_files: the key with the prefix, less its leading slash,
\* taken off its start.
StripPrefix(key, prefix) ==
  LET p == LStripSlash(prefix) IN
  IF StartsWith(key, p) THEN SubSeq(key, Len(p) + 1, Len(key)) ELSE key
\* get_dirs_and_files: a remainder with a '/' names a directory by its first
\* segment, any other names a file.
GetDirsAndFiles(key_list, prefix) ==
  [dirs |-> {FirstSegment(StripPrefix(key, prefix)) :
               key \in {k \in key_list : Contains(StripPrefix(k, prefix), "/")}},
   files |-> {StripPrefix(key, prefix) :
               key \in {k \in key_list : ~Contains(StripPrefix(k, prefix), "/")}}]

\* (a slip: the check for nested keys left out)
ListdirKeyNestedUnchecked == FALSE
\* OpenS3.listdir: its checks, in the order it makes them. object_key[-1] of
\* the empty key is an IndexError.
ListdirModeRefused == mode # "rb"
ListdirKeyEmpty == object_key = <<>>
ListdirKeyNotDirectory == object_key[Len(object_key)] # "/"
ListdirKeyNested == Contains(StripSlash(object_key), "/")
\* OpenS3.listdir: the statuses it takes for success.
ListSucceeded(status) == status \in {200, 204}
\* (a slip: the stripped prefix handed on in place of the key)
ListdirPrefixArgStripped == Prefix
\* OpenS3.listdir: the prefix it hands to get_dirs_and_files.
ListdirPrefixArg == object_key

\* OpenS3.listdir. It signs its request from the credentials and the clock,
\* reading neither the buffer nor the headers of the handle.
Listdir ==
  /\ IF ListdirModeRefused
     THEN last' = Call("listdir", "ValueError", None)
     ELSE IF ListdirKeyEmpty
     THEN last' = Call("listdir", "IndexError", None)
     ELSE IF ListdirKeyNotDirectory
     THEN last' = Call("listdir", "ValueError", None)
     ELSE IF ListdirKeyNested
     THEN last' = Call("listdir", "NotImplementedError", None)
     ELSE \E resp \in ListResponses(QueryStringDict(Prefix)),
             datetime_now \in ClockReadings :
          \E utcnow \in {t \in ClockReadings : t >= datetime_now} :
            LET req == SignedListRequest(datetime_now, utcnow) IN
            last' = IF ~ListSucceeded(resp.status)
                    THEN ListExchange("S3IOError", None, req, resp)
                    ELSE IF ~resp.parses
                    THEN ListExchange("ParseError", None, req, resp)
                    ELSE ListExchange(None,
                                      GetDirsAndFiles(resp.keys, ListdirPrefixArg),
                                      req, resp)
  /\ UNCHANGED <<savers, creds, fields, store, mutation>>

\* A handle listing a bucket that holds objects.
InitList ==
  /\ bucket = "bkt" /\ access_key = "AK" /\ secret_key = "SK"
  /\ mode = "rb" /\ acl = "private"
  /\ object_key = <<>> /\ buffer = EmptyStr
  /\ content_type_ = None
  /\ response_headers = EmptyHeaders
  /\ extra_request_headers = EmptyHeaders
  /\ store \in ListStores
  /\ last = Local("init", <<>>, None)
  /\ mutation = [k \in Keys |-> "none"]
  /\ savers = NoSavers

NextList ==
  \/ \E k \in DirKeys, m \in ModeArgs, a \in OpenArgs : Open(k, m, a)
  \/ Listdir
  \/ Close

SpecList == InitList /\ [][NextList]_vars

\* ------------------------------------------------------------------ signing
\* Credentials __init__ accepts: complete ones, and ones whose access key or
\* secret key is the empty string.
SignCreds == {<<"bkt", "AK", "SK">>, <<"bkt", "", "SK">>, <<"bkt", "AK", "">>}

\* A handle of a session made with any of them.
InitSign ==
  /\ \E c \in SignCreds :
       bucket = c[1] /\ access_key = c[2] /\ secret_key = c[3]
  /\ mode = "rb" /\ acl = "private"
  /\ object_key = <<>> /\ buffer = EmptyStr
  /\ content_type_ = None
  /\ response_headers = EmptyHeaders
  /\ extra_request_headers = EmptyHeaders
  /\ store = [k \in Keys |-> Absent]
  /\ last = Local("init", <<>>, None)
  /\ mutation = [k \in Keys |-> "none"]
  /\ savers = NoSavers

NextSign ==
  \/ \E m \in ModeArgs, a \in OpenArgs : Open(KeyTxt, m, a)
  \/ \E content \in Contents : Write(content)
  \/ Read
  \/ Close
  \/ Delete
  \/ Exists

SpecSign == InitSign /\ [][NextSign]_vars

\* ------------------------------------------------------------------ writing
\* Contents callers write one after the other: the empty one and two that
\* differ and are not empty.
WriteContents == StrsUpTo(MaxContentLen + 1)

NextWrite ==
  \/ \E m \in {"wb", "ab", "rb"}, a \in OpenArgs : Open(KeyTxt, m, a)
  \/ \E content \in WriteContents : Write(content)
  \/ Close

SpecWrite == Init /\ [][NextWrite]_vars

\* ------------------------------------------------------------ with blocks
\* `with opener(key, mode, ...) as f:` - the statement calls open() and
\* __enter__, runs its body, and calls __exit__ when the body ends or raises.
\* The record of the last call tells where the statement is: in its body,
\* at a raise of its body, or outside.
InBody ==
  \/ last.op = "open" /\ last.raised = None
  \/ last.op = "write"
BodyRaised == last.op = "raise"
Outside == ~InBody /\ ~BodyRaised
\* What a body raises by itself.
BodyErrors == {"KeyError"}

\* __call__ and __enter__
Enter(m, a) == Outside /\ Open(KeyTxt, m, a)
\* write() in the body
BodyWrite(content) == InBody /\ Write(content)
\* The body raises: nothing of the handle changes.
BodyRaises(exc) ==
  /\ InBody
  /\ last' = Local("raise", object_key, exc)
  /\ UNCHANGED <<savers, creds, fields, store, mutation>>
\* OpenS3.__exit__(exc_type, exc_val, exc_tb): self.close()
Exit ==
  /\ InBody \/ BodyRaised
  /\ CloseCall("exit", IF BodyRaised THEN last.raised ELSE None)

NextWith ==
  \/ \E m \in {"wb", "ab", "rb"}, a \in OpenArgs : Enter(m, a)
  \/ \E content \in Contents : BodyWrite(content)
  \/ \E exc \in BodyErrors : BodyRaises(exc)
  \/ Exit

\* The with statement calls __exit__ as soon as its body ends or raises.
SpecWith == Init /\ [][NextWith]_vars /\ WF_vars(Exit)

\* ---------------------------------------------------------------- S3Storage
\* Storage.save(name, file) by two clients of one bucket. A client looks for
\* a free name with get_available_name, one exists() at a time, and PUTs to
\* the name it settled on; the steps of the two interleave.
\* The name asked for, '/f.txt' (n = 0), and the n-th name tried after it:
\* os.path.join(dir_name, '{}_{}{}'.format(file_root, n, file_ext)).
Candidate(n) ==
  IF n = 0 THEN <<"/", "f", ".txt">> ELSE <<"/", "f", "_", n, ".txt">>
SaveNames == {Candidate(n) : n \in 0..MaxCount}
\* The content client c saves.
FileOf(c) == <<c>>
\* Buckets the clients meet: empty, '/f.txt' taken, '/f.txt' and '/f_1.txt'
\* taken.
SaveStores ==
  {[name \in SaveNames |-> IF name \in {Candidate(n) : n \in 0..(taken - 1)}
                           THEN Stored(<<0>>, "text/plain") ELSE Absent] : taken \in 0..MaxCount}

\* S3Storage._head: the statuses a HEAD of a name can come back with.
StorageHeadStatuses(name) ==
  {IF store[name].present THEN 200 ELSE 404} \cup FaultStatuses
\* S3Storage.exists: the statuses it answers for; it answers True for 200.
StorageExistsAnswers(status) == status \in {200, 404}
\* S3Storage._put_file: the status it takes for success.
StoragePutSucceeded(status) == status \in {200}

\* The record of a step of save(): the client, the name it is at, and
\* whether the bucket held that name when the step began.
SaveRecord(op, c, name, raised) ==
  [Local(op, name, raised) EXCEPT !.result = c,
                                  !.was_present = store[name].present]

\* Storage.save: it starts looking for a name.
SaveBegin(c) ==
  /\ savers[c].pc = "idle"
  /\ savers' = [savers EXCEPT ![c] = [pc |-> "get_available_name", n |-> 0]]
  /\ last' = SaveRecord("save", c, Candidate(0), None)
  /\ UNCHANGED <<creds, fields, store, mutation>>

\* Storage.get_available_name: one turn of `while self.exists(name)`.
AvailableNameStep(c) ==
  /\ savers[c].pc = "get_available_name"
  /\ \E status \in StorageHeadStatuses(Candidate(savers[c].n)) :
       IF ~StorageExistsAnswers(status)
       THEN /\ savers' = [savers EXCEPT ![c].pc = "raised"]
            /\ last' = SaveRecord("exists", c, Candidate(savers[c].n), "S3IOError")
       ELSE IF status = 200
       THEN /\ savers[c].n < MaxCount
            /\ savers' = [savers EXCEPT ![c].n = @ + 1]
            /\ last' = SaveRecord("exists", c, Candidate(savers[c].n), None)
       ELSE /\ savers' = [savers EXCEPT ![c].pc = "_save"]
            /\ last' = SaveRecord("get_available_name", c,
                                  Candidate(savers[c].n), None)
  /\ UNCHANGED <<creds, fields, store, mutation>>

\* S3Storage._save, with _put_file: the PUT to the name settled on.
SavePut(c) ==
  /\ savers[c].pc = "_save"
  /\ \E status \in {200} \cup FaultStatuses :
       IF StoragePutSucceeded(status)
       THEN /\ store' = [store EXCEPT ![Candidate(savers[c].n)] =
                                        Stored(FileOf(c), "text/plain")]
            /\ savers' = [savers EXCEPT ![c].pc = "saved"]
            /\ last' = SaveRecord("_save", c, Candidate(savers[c].n), None)
       ELSE /\ savers' = [savers EXCEPT ![c].pc = "raised"]
            /\ last' = SaveRecord("_save", c, Candidate(savers[c].n), "S3IOError")
            /\ UNCHANGED store
  /\ UNCHANGED <<creds, fields, mutation>>

InitSave ==
  /\ bucket = "bkt" /\ access_key = "AK" /\ secret_key = "SK"
  /\ mode = "rb" /\ acl = "private"
  /\ object_key = <<>> /\ buffer = EmptyStr
  /\ content_type_ = None
  /\ response_headers = EmptyHeaders
  /\ extra_request_headers = EmptyHeaders
  /\ store \in SaveStores
  /\ last = Local("init", <<>>, None)
  /\ mutation = [k \in Keys |-> "none"]
  /\ savers = NoSavers

NextSave ==
  \/ \E c \in Clients : SaveBegin(c)
  \/ \E c \in Clients : AvailableNameStep(c)
  \/ \E c \in Clients : SavePut(c)

SpecSave == InitSave /\ [][NextSave]_vars

\* ------------------------------------------------------------ content types
\* Keys whose content type callers ask for: '/a.txt', '/b.dat' and '/a.TXT',
\* whose extension differs from a table entry by case alone.
KeyUpper == <<"/","a",".","T","X","T">>
TypeKeys == Keys \cup {KeyUpper}
\* The arguments they open with: those of OpenArgs, and an empty content type.
TypeArgs ==
  OpenArgs \cup {[content_type |-> "", acl |-> "private", extra |-> EmptyHeaders]}

\* A handle on a bucket whose objects were stored as 'image/png'.
InitType ==
  /\ bucket = "bkt" /\ access_key = "AK" /\ secret_key = "SK"
  /\ mode = "rb" /\ acl = "private"
  /\ object_key = <<>> /\ buffer = EmptyStr
  /\ content_type_ = None
  /\ response_headers = EmptyHeaders
  /\ extra_request_headers = EmptyHeaders
  /\ store = [k \in Keys |-> Stored(<<120>>, "image/png")]
  /\ last = Local("init", <<>>, None)
  /\ mutation = [k \in Keys |-> "none"]
  /\ savers = NoSavers

NextType ==
  \/ \E k \in TypeKeys, m \in ModeArgs, a \in TypeArgs : Open(k, m, a)
  \/ Read
  \/ Exists
  \/ Close

SpecType == InitType /\ [][NextType]_vars

\* ================================================================== claims
\* The content type a key's extension stands for: 'text/plain' for '/a.txt',
\* the generic binary type for '/b.dat'.
InferredType(k) == IF k = KeyTxt THEN "text/plain" ELSE "binary/octet-stream"

\* The handle is in the state __init__ leaves it in.
Unopened ==
  /\ mode = "rb" /\ object_key = <<>> /\ buffer = EmptyStr /\ acl = "private"
  /\ content_type_ = None /\ response_headers = EmptyHeaders
  /\ extra_request_headers = EmptyHeaders

\* C1. Round trip: close() directly after open(K,'wb') and write(C), returning
\* without an error, leaves the bucket holding exactly C under K with the
\* declared (else inferred) content type - the empty C included - and read()
\* directly after open(K,'rb') returns exactly what the bucket holds under K,
\* with its content type.
C1_PutStoresWritten ==
  (/\ last'.op = "close" /\ last'.raised = None
   /\ last.op = "write" /\ last.first /\ last.raised = None /\ mode = "wb")
  => store'[object_key] =
       Stored(Encode(buffer.data),
              IF content_type_ # None THEN content_type_
              ELSE InferredType(object_key))
C1_GetReturnsStored ==
  (/\ last'.op = "read" /\ last'.first /\ mode = "rb" /\ IsPresent(object_key)
   /\ (last'.faithful \/ last'.sent = <<>>))
  => /\ last'.raised = None
     /\ last'.result = BytesVal(store[object_key].body)
     /\ "Content-Type" \in DOMAIN response_headers'
     /\ response_headers'["Content-Type"] = store[object_key].ctype
C1_RoundTrip == [][C1_PutStoresWritten /\ C1_GetReturnsStored]_vars

\* C2. When open() returns, the buffer and the cached response metadata are
\* empty (so nothing buffered or fetched before it can be PUT by a later
\* close()).
C2_OpenResets ==
  (last.op = "open" /\ last.raised = None)
  => (~Truthy(buffer) /\ response_headers = EmptyHeaders)

\* C3. After every close(), whatever it did, the handle is unopened and its
\* credentials are the ones it was built with.
C3_CloseResets ==
  last.op = "close"
  => (Unopened /\ bucket = "bkt" /\ access_key = "AK" /\ secret_key = "SK")

\* C4. close() sends a PUT iff the mode is 'wb' or 'ab' and the buffer is
\* non-empty; then it is one PUT of the buffer to the bound key, 200 and 204
\* are success and any other status raises S3IOError; otherwise close() sends
\* nothing and raises nothing.
C4_CloseStep ==
  (last'.op = "close" /\ object_key \in Keys) =>
    IF mode \in {"wb", "ab"} /\ Truthy(buffer)
    THEN /\ Len(last'.sent) = 1
         /\ last'.sent[1].method = "PUT"
         /\ last'.sent[1].path = object_key
         /\ buffer.kind = "str"
         /\ last'.sent[1].body = Encode(buffer.data)
         /\ last'.raised = IF last'.status \in {200, 204} THEN None ELSE "S3IOError"
    ELSE last'.sent = <<>> /\ last'.raised = None
C4_ClosePuts == [][C4_CloseStep]_vars

\* C5. read() sends one GET for the bound key; it stores body and response
\* metadata only for status 200; for any other status it raises
\* (S3FileDoesNotExistError without a length, S3IOError with one) and leaves
\* buffer and response metadata as they were.
C5_ReadStep ==
  (last'.op = "read" /\ object_key \in Keys) =>
    /\ Len(last'.sent) = 1
    /\ last'.sent[1].method = "GET"
    /\ last'.sent[1].path = object_key
    /\ IF last'.status = 200
       THEN /\ last'.raised = None
            /\ buffer'.kind = "bytes"
            /\ last'.result = buffer'
       ELSE /\ last'.raised =
                 IF last'.has_length THEN "S3IOError" ELSE "S3FileDoesNotExistError"
            /\ UNCHANGED <<buffer, response_headers>>
C5_ReadStores == [][C5_ReadStep]_vars

\* C6. read() raises S3FileDoesNotExistError only for an object the bucket
\* does not hold: the status of the response is 404, never 403 or 500.
C6_NotFoundOnlyWhenAbsent ==
  (last.op = "read" /\ last.key \in Keys /\ last.raised = "S3FileDoesNotExistError")
  => (last.status = 404 /\ ~last.was_present)

\* C7. exists() sends exactly one HEAD for the bound key, returns True for
\* 200 and False for 404, raises S3IOError for any other status, and leaves
\* object key, mode and buffer alone.
C7_ExistsStep ==
  (last'.op = "exists" /\ object_key \in Keys) =>
    /\ Len(last'.sent) = 1
    /\ last'.sent[1].method = "HEAD"
    /\ last'.sent[1].path = Url
    /\ CASE last'.status = 200 -> last'.raised = None /\ last'.result = "True"
         [] last'.status = 404 -> last'.raised = None /\ last'.result = "False"
         [] OTHER -> last'.raised = "S3IOError"
    /\ UNCHANGED <<object_key, mode, buffer>>
C7_ExistsHeads == [][C7_ExistsStep]_vars

\* C8. delete() sends exactly one DELETE for the bound key; on 200 or 204 it
\* returns and the handle is unopened; on any other status it raises
\* S3IOError.
C8_DeleteStep ==
  (last'.op = "delete" /\ object_key \in Keys) =>
    /\ Len(last'.sent) = 1
    /\ last'.sent[1].method = "DELETE"
    /\ last'.sent[1].path = object_key
    /\ IF last'.status \in {200, 204}
       THEN last'.raised = None /\ mode' = "rb" /\ object_key' = <<>>
            /\ buffer' = EmptyStr
       ELSE last'.raised = "S3IOError"
C8_DeleteDeletes == [][C8_DeleteStep]_vars

\* C9. What exists() returns for a key is True exactly when the latest
\* mutation of the key the service accepted from the library is a PUT: False
\* before any PUT, True after an accepted PUT, False again after an accepted
\* DELETE.
C9_ExistsReflectsMutation ==
  (last.op = "exists" /\ last.raised = None /\ last.key \in Keys)
  => (last.result = "True" <=> mutation[last.key] = "put")
\* exists() has returned False for a key that was PUT and then deleted.
C9_Witness ==
  /\ last.op = "exists" /\ last.raised = None /\ last.key \in Keys
  /\ last.result = "False" /\ mutation[last.key] = "delete"
  /\ \E k \in Keys : mutation[k] = "put"

\* C10. A delete() of a key the bucket does not hold, answered 200 or 204,
\* returns without raising and leaves the bucket as it was, and an exists()
\* for a key whose latest accepted mutation is a DELETE returns False.
C10_DeleteStep ==
  /\ (/\ last'.op = "delete" /\ object_key \in Keys /\ ~IsPresent(object_key)
      /\ last'.status \in {200, 204})
     => (last'.raised = None /\ store' = store)
  /\ (/\ last'.op = "exists" /\ last'.raised = None /\ object_key \in Keys
      /\ mutation[object_key] = "delete")
     => last'.result = "False"
C10_DeleteIdempotent == [][C10_DeleteStep]_vars
\* A delete() of a key the bucket does not hold has been answered 200 or 204
\* and has returned.
C10_Witness ==
  /\ last.op = "delete" /\ last.raised = None /\ last.key \in Keys
  /\ ~last.was_present /\ last.status \in {200, 204}
  /\ mutation[last.key] = "delete"

\* C11. write() returns only in mode 'wb' or 'ab', and does so there; in mode
\* 'rb' (an unopened or closed handle included) it raises RuntimeError and
\* leaves the buffer as it was. Either way it sends no request and changes
\* nothing of the handle or the bucket but the buffer.
C11_WriteStep ==
  last'.op = "write" =>
    /\ last'.sent = <<>>
    /\ UNCHANGED <<creds, mode, acl, object_key, content_type_, response_headers,
                   extra_request_headers, store, mutation>>
    /\ IF mode \in {"wb", "ab"}
       THEN last'.raised = None /\ buffer'.kind = "str"
       ELSE last'.raised = "RuntimeError" /\ buffer' = buffer
C11_WriteLocal == [][C11_WriteStep]_vars
\* write() has been refused in mode 'rb' on a handle whose buffer holds
\* content.
C11_Witness ==
  /\ last.op = "write" /\ last.raised = "RuntimeError"
  /\ mode = "rb" /\ Truthy(buffer)

\* C12. open() with a mode other than 'rb', 'wb', 'ab' raises ValueError,
\* sends nothing and leaves every field of the handle (key, mode, acl, content
\* type, extra headers, buffer, response headers) and the bucket as they
\* were; the mode of the handle is one of the three in every state.
C12_OpenStep ==
  /\ mode \in {"rb", "wb", "ab"} /\ mode' \in {"rb", "wb", "ab"}
  /\ (last'.op = "open" /\ last'.result \notin {"rb", "wb", "ab"})
     => /\ last'.raised = "ValueError"
        /\ last'.sent = <<>>
        /\ UNCHANGED <<creds, fields, store, mutation>>
C12_OpenRejectsMode == [][C12_OpenStep]_vars
\* open() with mode 'r' has been refused on a handle opened for writing that
\* holds content, which it keeps.
C12_Witness ==
  /\ last.op = "open" /\ last.result = "r" /\ last.raised = "ValueError"
  /\ mode = "wb" /\ object_key \in Keys /\ Truthy(buffer)

\* C13. No request carries an x-amz-acl header whose value is not one of the
\* canned ACLs (open() having refused any other acl).
C13_RequestStep ==
  (last'.sent # <<>> /\ last'.op \in {"read", "size", "close", "delete", "exists"})
  => BuildRequestHeaders(last'.sent[1].method, object_key)["x-amz-acl"] \in CannedAcls
C13_AclCanned == [][C13_RequestStep]_vars

\* C14. OpenS3(bucket, access_key, secret_key) raises ValueError, sending
\* nothing, exactly when one of the three is None; the credentials of a
\* handle are therefore never None, and the construction close() and delete()
\* run again on the handle never raises.
C14_Construction ==
  /\ last.op = "new"
     => /\ last.sent = <<>>
        /\ last.raised = IF \E i \in 1..3 : last.result[i] = None
                         THEN "ValueError" ELSE None
  /\ Constructed
     => bucket # None /\ access_key # None /\ secret_key # None
  /\ last.op \in {"close", "delete"} => last.raised # "ValueError"
\* A construction without an access key has raised ValueError.
C14_Witness ==
  /\ last.op = "new" /\ last.raised = "ValueError"
  /\ last.result[1] # None /\ last.result[2] = None /\ last.result[3] # None

\* C15. A close() that directly follows open(K, m) and write(NEW), with its
\* PUT accepted, on a key K that holds OLD leaves K holding OLD followed by
\* NEW when m is 'ab', and exactly NEW when m is 'wb'.
C15_AppendStep ==
  (/\ last'.op = "close" /\ last'.raised = None /\ last'.sent # <<>>
   /\ last.op = "write" /\ last.first /\ last.raised = None
   /\ IsPresent(object_key))
  => store'[object_key].body =
       IF mode = "ab"
       THEN store[object_key].body \o Encode(buffer.data)
       ELSE Encode(buffer.data)
C15_AbAppends == [][C15_AppendStep]_vars

\* The bucket of the listing example, with d for static, e for css, f for
\* js, x for robots.txt and c for config.txt.
ExampleStore ==
  [p \in ListPaths |->
     IF p \in {PathDEY, PathDEZ, PathDFY, PathDX, PathC}
     THEN Stored(<<120>>, DEFAULT_CONTENT_TYPE) ELSE Absent]
\* The keys of the stored objects that begin with the characters of pre.
StoredKeysFrom(pre) ==
  {Tail(p) : p \in {q \in ListPaths :
                      store[q].present /\ StartsWith(Tail(q), pre)}}
\* A key with the directory dir (as 'd/', or '' for the root) taken off its
\* start.
Remainder(key, dir) ==
  IF StartsWith(key, dir) THEN SubSeq(key, Len(dir) + 1, Len(key)) ELSE key
EndsWithSlash(k) == k # <<>> /\ k[Len(k)] = "/"

\* C16. A listdir() that returns on a handle opened on '/' or '/d/' returns
\* (dirs, files) where, over the keys the service returns with the directory
\* taken off their start, dirs is the set of first segments of the remainders
\* holding a '/' and files the set of remainders holding none; for the
\* example bucket listdir('/') is ({d}, {c}) and listdir('/d/') is
\* ({e, f}, {x}).
C16_ListdirResult ==
  (last.op = "listdir" /\ last.raised = None) =>
    LET dir == Tail(last.key)
        returned == StoredKeysFrom(StripSlash(last.key))
        nested == {k \in returned : Contains(Remainder(k, dir), "/")}
    IN /\ last.key \in {DirRoot, DirD}
       /\ last.result.dirs = {FirstSegment(Remainder(k, dir)) : k \in nested}
       /\ last.result.files = {Remainder(k, dir) : k \in returned \ nested}
       /\ (store = ExampleStore /\ last.key = DirRoot)
          => last.result = [dirs |-> {<<"d">>}, files |-> {<<"c">>}]
       /\ (store = ExampleStore /\ last.key = DirD)
          => last.result = [dirs |-> {<<"e">>, <<"f">>}, files |-> {<<"x">>}]
\* listdir('/d/') has returned ({e, f}, {x}) for the example bucket.
C16_Witness ==
  /\ last.op = "listdir" /\ last.raised = None /\ last.key = DirD
  /\ store = ExampleStore
  /\ last.result = [dirs |-> {<<"e">>, <<"f">>}, files |-> {<<"x">>}]

\* C17. Every name listdir() returns for '/d/' is the first path segment
\* after 'd/' of a stored key that begins with 'd/': keys such as 'dx/y' and
\* 'd.t' give it nothing.
C17_OnlyChildren ==
  (last.op = "listdir" /\ last.raised = None /\ last.key = DirD) =>
    \A name \in last.result.dirs \cup last.result.files :
      \E k \in StoredKeysFrom(<<"d", "/">>) :
        name = FirstSegment(SubSeq(k, 3, Len(k)))

C19_Preconditions ==
  last.op = "listdir" =>
    /\ (mode # "rb" \/ ~EndsWithSlash(last.key))
       => (last.raised = "ValueError" /\ last.sent = <<>>)
    /\ last.sent # <<>>
       => /\ mode = "rb" /\ EndsWithSlash(last.key)
          /\ ~Contains(StripSlash(last.key), "/")

\* C20. content_type is the (non-empty) value given to open() if there is
\* one; else the Content-Type of the cached response headers if they hold
\* one; else the entry of the extension table for the extension of the key as
\* written ('text/plain' for '/a.txt', none for '/a.TXT' or '/b.dat'); else
\* 'binary/octet-stream'.
C20_ContentTypePriority ==
  ContentType =
    IF content_type_ \notin {None, ""} THEN content_type_
    ELSE IF "Content-Type" \in DOMAIN response_headers
    THEN response_headers["Content-Type"]
    ELSE IF object_key = KeyTxt THEN "text/plain"
    ELSE "binary/octet-stream"
\* A handle opened on '/a.txt' with an explicit 'text/css' holds response
\* headers that say otherwise, and its content type is 'text/css'.
C20_Witness ==
  /\ object_key = KeyTxt /\ content_type_ = "text/css"
  /\ "Content-Type" \in DOMAIN response_headers
  /\ response_headers["Content-Type"] = "image/png"
  /\ ContentType = "text/css"

\* C21. A handle opened on '/a.txt' with no content type of its own has
\* content type 'text/plain' in every state up to its close(), whatever was
\* called on it or on the session before, and one opened on '/b.dat' has
\* 'binary/octet-stream'.
C21_InferredFromKey ==
  (object_key \in Keys /\ content_type_ = None)
    => ContentType = InferredType(object_key)

\* C22. size on a handle whose buffer is empty sends one GET for the bound key
\* and, when the GET is answered with the object, returns the length of the
\* object's content; on a handle whose buffer is not empty it sends nothing
\* and returns the length of the buffer.
C22_SizeStep ==
  (last'.op = "size" /\ object_key \in Keys) =>
    IF ~Truthy(buffer)
    THEN /\ Len(last'.sent) = 1
         /\ last'.sent[1].method = "GET" /\ last'.sent[1].path = object_key
         /\ (last'.raised = None /\ last'.faithful /\ last'.status = 200)
              => last'.result = Len(store[object_key].body)
    ELSE /\ last'.sent = <<>>
         /\ last'.raised = None
         /\ last'.result = Len(buffer.data)
C22_SizeFetchesOnEmptyBuffer == [][C22_SizeStep]_vars

\* C23. Handles of one session do not disturb one another. open() returns the
\* session object itself, so the handle of K1 and the handle a later open()
\* of K2 returns are the one object whose fields are the variables here: when
\* open() of another key returns on a session whose handle holds a write
\* buffered for K1 and is not closed, the handle of K1 still has its key and
\* mode, so that its close() PUTs the write to K1.
C23_OpenStep ==
  (/\ last'.op = "open" /\ last'.raised = None
   /\ object_key \in Keys /\ ShouldPut
   /\ last'.key # object_key)
    => /\ object_key' = object_key /\ mode' = mode
       /\ ShouldPut' /\ buffer' = buffer
C23_HandlesIsolated == [][C23_OpenStep]_vars

\* C24. Each read(), exists(), delete() and flushing close() opens one
\* connection, sends exactly one request on it, and leaves no connection
\* open when it returns or raises.
C24_RequestStep ==
  (\/ last'.op \in {"read", "exists", "delete"}
   \/ (last'.op = "close" /\ ShouldPut))
    => /\ Len(last'.sent) = 1
       /\ last'.opened = 1
       /\ last'.left_open = 0
C24_OneConnectionOneRequest == [][C24_RequestStep]_vars

\* C25. Every request listdir() sends is signed from one reading of the
\* clock: the x-amz-date header (as sent and as signed in the canonical
\* headers), the timestamp of the string to sign, the date of the scope, the
\* date of the Credential and the date the signing key is derived from are
\* all formatted from that one reading, also when the clock has passed
\* midnight by the time the request goes out.
C25_OneTimestamp ==
  (last.op = "listdir" /\ last.sent # <<>>) =>
    LET headers == last.sent[1].headers
        auth == headers["Authorization"]
        string_to_sign == auth.signature[3]
        signing_key == auth.signature[2]
        canonical_request == string_to_sign[4][2]
    IN \E t \in ClockReadings :
         /\ headers["x-amz-date"] = Iso8601(t)
         /\ canonical_request[4][3][3] = Iso8601(t)
         /\ string_to_sign[2] = Iso8601(t)
         /\ string_to_sign[3][1] = Ymd(t)
         /\ auth.credential[2][1] = Ymd(t)
         /\ signing_key[2][2][2][3] = Ymd(t)
\* A listing came back for a request signed just before midnight and sent
\* after it: it carries the timestamp and the dates of the day it was signed.
C25_Witness ==
  /\ last.op = "listdir" /\ last.raised = None
  /\ last.sent[1].sent_at = 2
  /\ last.sent[1].headers["x-amz-date"] = Iso8601(1)
  /\ last.sent[1].headers["Authorization"].credential[2][1] = Ymd(1)
  /\ Ymd(1) # Ymd(2)

\* C26. Every request signed the V2 way carries an Authorization header
\* 'AWS ' + access_key + ':' + signature, where the signature is over the
\* method, the Content-MD5, Content-Type and Date the request carries, the
\* line 'x-amz-acl:' + the x-amz-acl it carries, and '/' + bucket + key, in
\* that order - the values as sent, extra request headers laid over them
\* included; a request of a session whose access key or secret key is empty
\* is sent without an Authorization header.
C26_RequestStep ==
  (last'.sent # <<>> /\ last'.op \in {"read", "exists", "delete", "close"}) =>
    LET method == last'.sent[1].method
        headers == BuildRequestHeaders(method, object_key)
        string_to_sign ==
          << method, headers["Content-MD5"], headers["Content-Type"],
             headers["Date"], <<"x-amz-acl:", headers["x-amz-acl"]>>,
             <<"/", bucket, object_key>> >>
    IN IF access_key = "" \/ secret_key = ""
       THEN "Authorization" \notin DOMAIN headers
       ELSE /\ "Authorization" \in DOMAIN headers
            /\ headers["Authorization"] =
                 <<"AWS ", access_key, ":",
                   B64String(<<"hmac-sha1", secret_key, string_to_sign>>)>>
C26_V2StringToSign == [][C26_RequestStep]_vars
\* A PUT went out signed for a handle whose extra request headers replace
\* the Content-Type, and stored the object under the replaced type.
C26_Witness ==
  /\ last.op = "close" /\ last.raised = None /\ last.sent # <<>>
  /\ last.sent[1].method = "PUT"
  /\ access_key = "AK" /\ secret_key = "SK"
  /\ store[KeyTxt].present
  /\ store[KeyTxt].ctype = OverrideHeaders["Content-Type"]

\* C27. Storage.save never overwrites an object. The name
\* get_available_name settles on is not in the bucket then, and every name
\* tried before it is; and when the PUT of save() stores its file, the
\* bucket does not hold the name it stores it under - also while another
\* client is saving the same name.
C27_SaveStep ==
  \A c \in Clients :
    /\ (savers[c].pc = "get_available_name" /\ savers'[c].pc = "_save")
         => /\ ~store[Candidate(savers[c].n)].present
            /\ \A m \in 0..(savers[c].n - 1) : store[Candidate(m)].present
    /\ (savers[c].pc = "_save" /\ savers'[c].pc = "saved")
         => ~store[Candidate(savers[c].n)].present
C27_NeverOverwrites == [][C27_SaveStep]_vars

\* C28. A handle stays usable after a read(): every read(), exists(),
\* delete() and size returns or raises one of ValueError, RuntimeError,
\* NotImplementedError and S3IOError (S3FileDoesNotExistError is one), and
\* every read(), exists() and delete() gets as far as sending its request.
C28_UsableAfterRead ==
  last.op \in {"read", "exists", "delete", "size"} =>
    /\ last.raised \in {None, "ValueError", "RuntimeError",
                        "NotImplementedError", "S3IOError",
                        "S3FileDoesNotExistError"}
    /\ last.op # "size" => Len(last.sent) = 1

\* C29. write() replaces the buffer: a write(B) that returns leaves the buffer
\* holding exactly B, whatever it found there - the content A of an earlier
\* write() included - and a close() directly after it PUTs exactly B to the
\* bound key, and nothing else, when B is not empty, and sends nothing when B
\* is empty: A is not uploaded.
C29_WriteStep ==
  /\ (last'.op = "write" /\ last'.raised = None)
       => buffer' = last'.result.content
  /\ (last'.op = "close" /\ last.op = "write" /\ last.raised = None)
       => IF last.result.content.data # <<>>
          THEN last'.sent =
                 << [method |-> "PUT", path |-> object_key,
                     body |-> Encode(last.result.content.data)] >>
          ELSE last'.sent = <<>>
C29_WriteReplaces == [][C29_WriteStep]_vars
\* A write('xx') returned on a handle opened for writing whose buffer held
\* the 'x' of an earlier write(): the buffer holds 'xx'.
C29_Witness ==
  /\ last.op = "write" /\ last.raised = None /\ ~last.first
  /\ last.result.found = StrVal(<<"x">>)
  /\ last.result.content = StrVal(<<"x", "x">>)
  /\ buffer = StrVal(<<"x", "x">>)

\* C30. Leaving a with block always runs close(). When the body of a with
\* block on a handle opened for writing raises while the buffer holds the
\* content of a write(), nothing else runs before __exit__, __exit__ does run,
\* and it PUTs that content to the bound key in one request; the caller gets
\* the exception of the body when the PUT is accepted, and the S3IOError of
\* the PUT when it is rejected.
C30_ExitStep ==
  (last.op = "raise" /\ ShouldPut) =>
    /\ last'.op = "exit"
    /\ last'.result = last.raised
    /\ last'.sent =
         << [method |-> "PUT", path |-> object_key,
             body |-> Encode(buffer.data)] >>
    /\ last'.raised =
         IF PutSucceeded(last'.status) THEN last.raised ELSE "S3IOError"
C30_ExitFlushes ==
  /\ [][C30_ExitStep]_vars
  /\ (last.op = "raise" /\ ShouldPut)
       ~> (/\ last.op = "exit" /\ last.result \in BodyErrors
           /\ Len(last.sent) = 1 /\ last.sent[1].method = "PUT"
           /\ last.raised =
                IF PutSucceeded(last.status) THEN last.result ELSE "S3IOError")
\* A with block whose body raised KeyError after a write('x') was left, its
\* PUT of 'x' was rejected, and the caller got the S3IOError.
C30_Witness ==
  /\ last.op = "exit" /\ last.result = "KeyError"
  /\ Len(last.sent) = 1 /\ last.sent[1].method = "PUT"
  /\ last.sent[1].body = Encode(<<"x">>)
  /\ ~PutSucceeded(last.status)
  /\ last.raised = "S3IOError"

====
